---------------------------- MODULE Spec2Model ----------------------------
(***************************************************************************)
(* The PTP clock controller of linuxptp (clock.c) as a state machine.      *)
(*                                                                         *)
(* The state is the single instance `the_clock` (struct clock, lines       *)
(* 42-63) together with a log of the calls that the last operation made    *)
(* to its collaborators (ports, servo, moving average, clock device).      *)
(* Every public operation of clock.c is one action that models the whole   *)
(* function, the static helpers it calls included.                         *)
(***************************************************************************)
EXTENDS Integers, Sequences, FiniteSets, TLC

(***************************************************************************)
(* Bounds of the model.  MAX_PORTS is a compile-time size that clock.c     *)
(* takes from its headers; the model keeps it small.                       *)
(***************************************************************************)
MAX_PORTS == 2
\* timestamps fed to the controller carry 0..MaxTime nanoseconds
MaxTime == 1
\* wire corrections carry 0..MaxCorr whole nanoseconds
MaxCorr == 1
\* dataset qualities that the comparator distinguishes
MaxRank == 2
\* samples the filter may hold before the model stops feeding it
MaxSamples == 2
\* ready poll slots in one wakeup
MaxReady == 2
\* clock_step is applied to offsets of up to MaxStepHalves half seconds, in
\* eighths of a second, each moved by up to MaxStepFine nanoseconds either way
MaxStepHalves == 3
MaxStepFine == 2

(***************************************************************************)
(* Program constants.  N_POLLFD, the number of poll slots of a port, comes *)
(* from the headers as well; the model gives a port two slots.             *)
(***************************************************************************)
N_POLLFD == 2
MAVE_LENGTH == 10
NS_PER_SEC == 1000000000

NULL == 0
CLOCK_REALTIME == 0
CLOCK_INVALID == -1
\* the clockid that phc_open returns for an opened device
PHC_CLKID == 3

(***************************************************************************)
(* tmv.h: time values are signed 64 bit nanosecond counts.                 *)
(***************************************************************************)
tmv_add(a, b) == a + b

tmv_sub(a, b) == a - b

\* C integer division: the quotient is truncated toward zero
tmv_div(a, divisor) ==
  IF a >= 0 THEN a \div divisor ELSE -((-a) \div divisor)

\* C remainder: has the sign of the dividend
c_rem(a, d) == a - d * tmv_div(a, d)

\* a struct timespec / struct timestamp is seconds and nanoseconds
timespec_to_tmv(ts) == ts.sec * NS_PER_SEC + ts.nsec

timestamp_to_tmv(ts) == ts.sec * NS_PER_SEC + ts.nsec

\* a wire correction is nanoseconds scaled by 2^16
correction_to_tmv(c) == c \div 65536

(***************************************************************************)
(* mave.c: the moving average over the last `len` samples.                 *)
(***************************************************************************)
RECURSIVE SeqSum(_)
SeqSum(s) == IF s = <<>> THEN 0 ELSE Head(s) + SeqSum(Tail(s))

mave_create(length) == [len |-> length, val |-> <<>>]

mave_window(m, v) ==
  IF Len(m.val) < m.len THEN Append(m.val, v) ELSE Append(Tail(m.val), v)

\* the filter after accumulating v
mave_accumulate(m, v) == [m EXCEPT !.val = mave_window(m, v)]

\* the value mave_accumulate returns: the mean of the window
mave_value(m) == tmv_div(SeqSum(m.val), Len(m.val))

mave_reset(m) == [m EXCEPT !.val = <<>>]

(***************************************************************************)
(* The log of collaborator calls: one record per call.                     *)
(***************************************************************************)
Call(f, p, e, x, y) == [f |-> f, p |-> p, e |-> e, x |-> x, y |-> y]

\* the positions of log s whose call is to function f
Positions(s, f) == {k \in 1..Len(s) : s[k].f = f}

(***************************************************************************)
(* clock_step, lines 89-111: the struct timex handed to clock_adjtime.     *)
(***************************************************************************)
clock_step_sign(ns) == IF ns < 0 THEN -1 ELSE 1

clock_step_abs(ns) == IF ns < 0 THEN ns * (-1) ELSE ns

\* the mutant forgets the borrow of lines 105-108
clock_step_noborrow(ns) ==
  [sec  |-> clock_step_sign(ns) * tmv_div(clock_step_abs(ns), NS_PER_SEC),
   usec |-> clock_step_sign(ns) * c_rem(clock_step_abs(ns), NS_PER_SEC)]

clock_step_tx(ns) ==
  LET sec  == clock_step_sign(ns) * tmv_div(clock_step_abs(ns), NS_PER_SEC)
      usec == clock_step_sign(ns) * c_rem(clock_step_abs(ns), NS_PER_SEC)
  IN  IF usec < 0
      THEN [sec |-> sec - 1, usec |-> usec + 1000000000]
      ELSE [sec |-> sec, usec |-> usec]

clock_step(clkid_, ns) ==
  Call("clock_adjtime", clkid_, "ADJ_SETOFFSET|ADJ_NANO",
       clock_step_tx(ns).sec, clock_step_tx(ns).usec)

\* clock_ppb, lines 79-87: the frequency is scaled by 65.536 and truncated
clock_ppb(clkid_, ppb) ==
  Call("clock_adjtime", clkid_, "ADJ_FREQUENCY", tmv_div(ppb * 65536, 1000), 0)


(***************************************************************************)
(* State.                                                                  *)
(*   the_clock  struct clock the_clock (line 63), one field per member     *)
(*   handle     what the last clock_create returned: TRUE for &the_clock,  *)
(*              FALSE for NULL (and before the first call)                 *)
(*   op         the last operation and its arguments                       *)
(*   ret        the value the last operation returned                      *)
(*   calls      the collaborator calls the last operation made, in order   *)
(*   sampled    TRUE once clock_path_delay has fed a sample to the filter  *)
(*              since the last clock_create                                *)
(***************************************************************************)
VARIABLES the_clock, handle, op, ret, calls, sampled

vars == <<the_clock, handle, op, ret, calls, sampled>>

Ports == 0..(MAX_PORTS - 1)

Slots == 0..(MAX_PORTS * N_POLLFD - 1)

NoMave == [len |-> 0, val |-> <<>>]

NoIdentity == [clockIdentity |-> 0, portNumber |-> 0]

ZeroDDS ==
  [clockIdentity |-> 0, clockQuality |-> 0, priority1 |-> 0, priority2 |-> 0,
   numberPorts |-> 0]

ZeroCur == [stepsRemoved |-> 0]

ZeroDad ==
  [parentPortIdentity |-> NoIdentity, parentStats |-> 0,
   observedParentOffsetScaledLogVariance |-> 0,
   observedParentClockPhaseChangeRate |-> 0,
   grandmasterIdentity |-> 0, grandmasterClockQuality |-> 0,
   grandmasterPriority1 |-> 0, grandmasterPriority2 |-> 0]

ZeroTds ==
  [currentUtcOffset |-> 0, currentUtcOffsetValid |-> FALSE, leap61 |-> FALSE,
   leap59 |-> FALSE, timeTraceable |-> FALSE, frequencyTraceable |-> FALSE,
   ptpTimescale |-> FALSE, timeSource |-> 0]

\* the_clock is a global: all members start as zero, and memset zeroes them
ZeroClock ==
  [clkid |-> 0, servo |-> NULL, dds |-> ZeroDDS, cur |-> ZeroCur,
   dad |-> ZeroDad, tds |-> ZeroTds, best |-> NULL,
   port |-> [i \in Ports |-> NULL],
   pollfd |-> [k \in Slots |-> [fd |-> 0, events |-> 0]],
   nports |-> 0, master_offset |-> 0, path_delay |-> 0,
   avg_delay |-> NoMave, c1 |-> 0, c2 |-> 0, t1 |-> 0, t2 |-> 0]

NoOp == [name |-> "none", args |-> <<>>]

Init ==
  /\ the_clock = ZeroClock
  /\ handle = FALSE
  /\ op = NoOp
  /\ ret = 0
  /\ calls = <<>>
  /\ sampled = FALSE

(***************************************************************************)
(* clock_destroy, lines 67-77: the closing calls, in order.                *)
(***************************************************************************)
RECURSIVE port_close_calls(_, _)
port_close_calls(c, i) ==
  IF i >= c.nports THEN <<>>
  ELSE <<Call("port_close", c.port[i], "", i, 0)>> \o port_close_calls(c, i + 1)

clock_destroy_calls(c) ==
  port_close_calls(c, 0) \o
  (IF c.clkid # CLOCK_REALTIME
   THEN <<Call("phc_close", c.clkid, "", 0, 0)>> ELSE <<>>)


(***************************************************************************)
(* clock_create, lines 158-236.                                            *)
(*   phc    TRUE when a device path is given                               *)
(*   count  the number of interfaces                                       *)
(*   ds     the default dataset configuration                              *)
(*   ts     the timestamping mode of each interface                        *)
(*   env    what the collaborators answer: phc_ok (phc_open succeeds),     *)
(*          max_adj (phc_max_adj), servo_ok, mave_ok, and port_fail, the   *)
(*          1-based interface whose port_open fails (0: none fails)        *)
(* Each stage yields the clock so far, the calls so far, and whether the   *)
(* function has returned NULL.                                             *)
(***************************************************************************)
SERVO_PTR == 1

\* the pointer port_open returns for interface i
PortPtr(i) == 1 + i

\* lines 166-167
create_destroy(c) ==
  IF c.nports # 0
  THEN [c |-> ZeroClock, log |-> clock_destroy_calls(c)]
  ELSE [c |-> c, log |-> <<>>]

\* the mutant accepts a device that cannot be adjusted
create_device_any_adj(st, phc, env) ==
  IF phc
  THEN LET id == IF env.phc_ok THEN PHC_CLKID ELSE CLOCK_INVALID
           c  == [st.c EXCEPT !.clkid = id]
           l1 == Append(st.log, Call("phc_open", id, "", 0, 0))
       IN  IF id = CLOCK_INVALID
           THEN [c |-> c, log |-> l1, failed |-> TRUE, max_adj |-> 0]
           ELSE [c |-> c,
                 log |-> Append(l1, Call("phc_max_adj", id, "", env.max_adj, 0)),
                 failed |-> FALSE, max_adj |-> env.max_adj]
  ELSE [c |-> [st.c EXCEPT !.clkid = CLOCK_REALTIME], log |-> st.log,
        failed |-> FALSE, max_adj |-> 512000]

\* lines 169-183: the clock id, the maximum adjustment, failure
create_device(st, phc, env) ==
  IF phc
  THEN LET id == IF env.phc_ok THEN PHC_CLKID ELSE CLOCK_INVALID
           c  == [st.c EXCEPT !.clkid = id]
           l1 == Append(st.log, Call("phc_open", id, "", 0, 0))
       IN  IF id = CLOCK_INVALID
           THEN [c |-> c, log |-> l1, failed |-> TRUE, max_adj |-> 0]
           ELSE [c |-> c,
                 log |-> Append(l1, Call("phc_max_adj", id, "", env.max_adj, 0)),
                 failed |-> env.max_adj = 0, max_adj |-> env.max_adj]
  ELSE [c |-> [st.c EXCEPT !.clkid = CLOCK_REALTIME], log |-> st.log,
        failed |-> FALSE, max_adj |-> 512000]

\* lines 185-190
create_sw_ts(count, ts) ==
  IF \E i \in 0..(count - 1) : ts[i] = "TS_SOFTWARE" THEN 1 ELSE 0

\* lines 192-201: the servo, then the moving average
create_servo(st, count, ts, env) ==
  LET sv == IF env.servo_ok THEN SERVO_PTR ELSE NULL
      l1 == Append(st.log,
                   Call("servo_create", sv, "pi", st.max_adj, create_sw_ts(count, ts)))
      c1 == [st.c EXCEPT !.servo = sv]
  IN  IF sv = NULL
      THEN [c |-> c1, log |-> l1, failed |-> TRUE]
      ELSE [c |-> [c1 EXCEPT !.avg_delay =
                      IF env.mave_ok THEN mave_create(MAVE_LENGTH) ELSE NoMave],
            log |-> Append(l1, Call("mave_create", 0, "", MAVE_LENGTH, 0)),
            failed |-> ~env.mave_ok]

\* lines 203-214: the default dataset is copied, the parent dataset set up
create_parent_ds(c) ==
  [c.dad EXCEPT
     !.parentPortIdentity = [clockIdentity |-> c.dds.clockIdentity, portNumber |-> 0],
     !.parentStats = 0,
     !.observedParentOffsetScaledLogVariance = 65535,
     !.observedParentClockPhaseChangeRate = 2147483647,
     !.grandmasterPriority1 = c.dds.priority1,
     !.grandmasterClockQuality = c.dds.clockQuality,
     !.grandmasterPriority2 = c.dds.priority1,
     !.grandmasterIdentity = c.dds.clockIdentity]

create_datasets(c, ds) ==
  LET c1 == [c EXCEPT !.dds = ds]
  IN  [c1 EXCEPT !.dad = create_parent_ds(c1),
                 !.pollfd = [k \in Slots |-> [fd |-> -1, events |-> 0]]]

\* lines 221-228: ports are opened in interface order until one fails
RECURSIVE create_open_ports(_, _, _, _)
create_open_ports(st, i, count, env) ==
  IF i >= count THEN [c |-> st.c, log |-> st.log, failed |-> FALSE]
  ELSE LET ptr == IF env.port_fail = 1 + i THEN NULL ELSE PortPtr(i)
           c1  == [st.c EXCEPT !.port[i] = ptr]
           l1  == Append(st.log, Call("port_open", ptr, "DM_E2E", i, 1 + i))
       IN  IF ptr = NULL
           THEN [c |-> c1, log |-> l1, failed |-> TRUE]
           ELSE create_open_ports([c |-> c1, log |-> l1], i + 1, count, env)

\* the mutant initializes the first port only
create_dispatch_first(c, i) ==
  IF c.nports = 0 THEN <<>>
  ELSE <<Call("port_dispatch", c.port[0], "EV_INITIALIZE", 0, 0)>>

\* lines 232-233
RECURSIVE create_dispatch(_, _)
create_dispatch(c, i) ==
  IF i >= c.nports THEN <<>>
  ELSE <<Call("port_dispatch", c.port[i], "EV_INITIALIZE", i, 0)>>
       \o create_dispatch(c, i + 1)

\* line 230
create_record_count(c, count) ==
  [c EXCEPT !.dds.numberPorts = count, !.nports = count]

clock_create(c0, phc, count, ds, ts, env) ==
  LET s0 == create_destroy(c0)
      s1 == create_device(s0, phc, env)
      s2 == create_servo(s1, count, ts, env)
      s3 == create_open_ports([c |-> create_datasets(s2.c, ds), log |-> s2.log],
                              0, count, env)
      c4 == create_record_count(s3.c, count)
  IN  IF s1.failed THEN [c |-> s1.c, log |-> s1.log, ok |-> FALSE]
      ELSE IF s2.failed THEN [c |-> s2.c, log |-> s2.log, ok |-> FALSE]
      ELSE IF s3.failed THEN [c |-> s3.c, log |-> s3.log, ok |-> FALSE]
      ELSE [c |-> c4, log |-> s3.log \o create_dispatch(c4, 0), ok |-> TRUE]

Create(phc, count, ds, ts, env) ==
  LET r == clock_create(the_clock, phc, count, ds, ts, env)
  IN  /\ the_clock' = r.c
      /\ handle' = r.ok
      /\ op' = [name |-> "clock_create", args |-> <<count>>]
      /\ ret' = IF r.ok THEN 1 ELSE 0
      /\ calls' = r.log
      /\ sampled' = FALSE


(***************************************************************************)
(* clock_path_delay, lines 331-367.  The request timestamp t3, the receive *)
(* timestamp t4 and the correction c3 are the arguments; t1, t2, c1, c2    *)
(* are read from the clock.                                                *)
(***************************************************************************)
\* lines 349-350: the value before the division
\* the mutant takes the two timestamps of the sync exchange for each other
path_delay_raw_swapped(c, t3, t4, c3) ==
  tmv_sub(tmv_add(tmv_sub(c.t1, t3), tmv_sub(t4, c.t2)),
          tmv_add(c.c1, tmv_add(c.c2, c3)))

path_delay_raw(c, t3, t4, c3) ==
  tmv_sub(tmv_add(tmv_sub(c.t2, t3), tmv_sub(t4, c.t1)),
          tmv_add(c.c1, tmv_add(c.c2, c3)))

\* line 351
path_delay_pd(c, t3, t4, c3) == tmv_div(path_delay_raw(c, t3, t4, c3), 2)

\* the mutant feeds every sample to the filter
path_delay_discard_never(pd) == FALSE

\* line 353
path_delay_discard(pd) == pd < 0

clock_path_delay(c, req, rx, correction) ==
  LET pd == path_delay_pd(c, timespec_to_tmv(req), timestamp_to_tmv(rx),
                          correction_to_tmv(correction))
      m  == mave_accumulate(c.avg_delay, pd)
  IN  IF path_delay_discard(pd)
      THEN [c |-> c, log |-> <<>>, fed |-> FALSE]
      ELSE [c |-> [c EXCEPT !.avg_delay = m, !.path_delay = mave_value(m)],
            log |-> <<Call("mave_accumulate", 0, "", pd, mave_value(m))>>,
            fed |-> TRUE]

\* the operation is run by a port of this clock that handles a delay response
PathDelay(req, rx, correction) ==
  LET r == clock_path_delay(the_clock, req, rx, correction)
  IN  /\ handle
      /\ the_clock.nports >= 1
      /\ r.fed => Len(the_clock.avg_delay.val) < MaxSamples
      /\ the_clock' = r.c
      /\ op' = [name |-> "clock_path_delay",
                args |-> <<timespec_to_tmv(req), timestamp_to_tmv(rx),
                           correction_to_tmv(correction)>>]
      /\ ret' = 0
      /\ calls' = r.log
      /\ sampled' = (sampled \/ r.fed)
      /\ UNCHANGED handle

(***************************************************************************)
(* clock_synchronize, lines 374-415.  sv is what servo_sample answers:     *)
(* the state and the adjustment.                                           *)
(***************************************************************************)
\* lines 394-395
synchronize_offset(c, ingress, origin) ==
  tmv_sub(ingress, tmv_add(origin, tmv_add(c.path_delay, tmv_add(c.c1, c.c2))))

\* the mutant leaves the offset to the part after the path delay test
synchronize_store_no_offset(c, ingress, origin, correction1, correction2) ==
  [c EXCEPT !.t1 = origin, !.t2 = ingress,
            !.c1 = correction_to_tmv(correction1),
            !.c2 = correction_to_tmv(correction2)]

\* lines 382-395: the stored exchange and the offset
synchronize_store(c, ingress, origin, correction1, correction2) ==
  LET c1 == [c EXCEPT !.t1 = origin, !.t2 = ingress,
                      !.c1 = correction_to_tmv(correction1),
                      !.c2 = correction_to_tmv(correction2)]
  IN  [c1 EXCEPT !.master_offset = synchronize_offset(c1, ingress, origin)]

\* the mutant lets the jump case fall through to the locked case
synchronize_act_fallthrough(c, sv) ==
  CASE sv.state = "SERVO_UNLOCKED" -> <<>>
    [] sv.state = "SERVO_JUMP" ->
         <<clock_step(c.clkid, -c.master_offset), clock_ppb(c.clkid, -sv.adj)>>
    [] sv.state = "SERVO_LOCKED" -> <<clock_ppb(c.clkid, -sv.adj)>>

\* lines 405-414
synchronize_act(c, sv) ==
  CASE sv.state = "SERVO_UNLOCKED" -> <<>>
    [] sv.state = "SERVO_JUMP" -> <<clock_step(c.clkid, -c.master_offset)>>
    [] sv.state = "SERVO_LOCKED" -> <<clock_ppb(c.clkid, -sv.adj)>>

\* the mutant samples the servo whatever the path delay is
synchronize_skip_never(c) == FALSE

\* line 397
synchronize_skip(c) == c.path_delay = 0

clock_synchronize(c, ingress_ts, origin_ts, correction1, correction2, sv) ==
  LET ingress == timespec_to_tmv(ingress_ts)
      origin  == timestamp_to_tmv(origin_ts)
      c1      == synchronize_store(c, ingress, origin, correction1, correction2)
  IN  IF synchronize_skip(c1)
      THEN [c |-> c1, log |-> <<>>]
      ELSE [c |-> c1,
            log |-> <<Call("servo_sample", c1.servo, sv.state, c1.master_offset, ingress)>>
                    \o synchronize_act(c1, sv)]

\* the operation is run by a port of this clock that handles a sync message;
\* op.args holds its arguments as time values, followed by the adjustment the
\* servo answered (0 when the servo was not sampled)
Synchronize(ingress_ts, origin_ts, correction1, correction2, sv) ==
  LET r == clock_synchronize(the_clock, ingress_ts, origin_ts,
                             correction1, correction2, sv)
  IN  /\ handle
      /\ the_clock.nports >= 1
      /\ the_clock' = r.c
      /\ op' = [name |-> "clock_synchronize",
                args |-> <<timespec_to_tmv(ingress_ts), timestamp_to_tmv(origin_ts),
                           correction_to_tmv(correction1),
                           correction_to_tmv(correction2),
                           IF r.log = <<>> THEN 0 ELSE sv.adj>>]
      /\ ret' = 0
      /\ calls' = r.log
      /\ UNCHANGED <<handle, sampled>>


(***************************************************************************)
(* Foreign clocks.  A port owns its foreign clocks; port_compute_best      *)
(* answers a pointer to one of them or NULL.  A candidate is the pointer   *)
(* together with what it points to in this round: the dataset and the      *)
(* first message of the queue.                                             *)
(***************************************************************************)
\* the k-th foreign clock of port i
FcPtr(i, k) == 10 * (1 + i) + k

NoCandidate ==
  [ptr |-> NULL,
   dataset |-> [priority1 |-> 0, stepsRemoved |-> 0, sender |-> NoIdentity],
   msg |-> [grandmasterIdentity |-> 0, grandmasterClockQuality |-> 0,
            grandmasterPriority1 |-> 0, grandmasterPriority2 |-> 0,
            currentUtcOffset |-> 0, flags |-> {}, timeSource |-> 0]]

\* foreign clock k of port i, announcing a grandmaster of priority q
Candidate(i, k, q) ==
  [ptr |-> FcPtr(i, k),
   dataset |-> [priority1 |-> q, stepsRemoved |-> k,
                sender |-> [clockIdentity |-> 100 + FcPtr(i, k), portNumber |-> 1]],
   msg |-> [grandmasterIdentity |-> 200 + q, grandmasterClockQuality |-> 300 + q,
            grandmasterPriority1 |-> q, grandmasterPriority2 |-> 400 + q,
            currentUtcOffset |-> 30 + k, flags |-> {"PTP_TIMESCALE", "UTC_OFF_VALID"},
            timeSource |-> 32]]

\* bmc.c: the comparator is a total preorder; a lower priority1 is better
dscmp(a, b) ==
  IF a.priority1 < b.priority1 THEN 1
  ELSE IF a.priority1 > b.priority1 THEN -1 ELSE 0

field_is_set(msg, flag) == flag \in msg.flags

(***************************************************************************)
(* clock_update_grandmaster, lines 113-130, and clock_update_slave,        *)
(* lines 132-149.                                                          *)
(***************************************************************************)
CURRENT_UTC_OFFSET == 34
INTERNAL_OSCILLATOR == 160

clock_update_grandmaster(c) ==
  [c EXCEPT
     !.cur = ZeroCur,
     !.dad.parentPortIdentity = [clockIdentity |-> c.dds.clockIdentity, portNumber |-> 0],
     !.dad.grandmasterIdentity = c.dds.clockIdentity,
     !.dad.grandmasterClockQuality = c.dds.clockQuality,
     !.dad.grandmasterPriority1 = c.dds.priority1,
     !.dad.grandmasterPriority2 = c.dds.priority2,
     !.tds = [currentUtcOffset |-> CURRENT_UTC_OFFSET, currentUtcOffsetValid |-> FALSE,
              leap61 |-> FALSE, leap59 |-> FALSE, timeTraceable |-> FALSE,
              frequencyTraceable |-> FALSE, ptpTimescale |-> TRUE,
              timeSource |-> INTERNAL_OSCILLATOR]]

\* fc is what c.best points to
clock_update_slave(c, fc) ==
  [c EXCEPT
     !.cur.stepsRemoved = 1 + fc.dataset.stepsRemoved,
     !.dad.parentPortIdentity = fc.dataset.sender,
     !.dad.grandmasterIdentity = fc.msg.grandmasterIdentity,
     !.dad.grandmasterClockQuality = fc.msg.grandmasterClockQuality,
     !.dad.grandmasterPriority1 = fc.msg.grandmasterPriority1,
     !.dad.grandmasterPriority2 = fc.msg.grandmasterPriority2,
     !.tds = [currentUtcOffset |-> fc.msg.currentUtcOffset,
              currentUtcOffsetValid |-> field_is_set(fc.msg, "UTC_OFF_VALID"),
              leap61 |-> field_is_set(fc.msg, "LEAP_61"),
              leap59 |-> field_is_set(fc.msg, "LEAP_59"),
              timeTraceable |-> field_is_set(fc.msg, "TIME_TRACEABLE"),
              frequencyTraceable |-> field_is_set(fc.msg, "FREQ_TRACEABLE"),
              ptpTimescale |-> field_is_set(fc.msg, "PTP_TIMESCALE"),
              timeSource |-> fc.msg.timeSource]]

(***************************************************************************)
(* handle_state_decision_event, lines 417-468.                             *)
(*   cands  what port_compute_best answers for each port                   *)
(*   roles  what bmc_state_decision answers for each port                  *)
(***************************************************************************)
\* the mutant lets a later port win a tie
decision_better_or_equal(fc, best) ==
  best.ptr = NULL \/ dscmp(fc.dataset, best.dataset) >= 0

\* line 426
decision_better(fc, best) ==
  best.ptr = NULL \/ dscmp(fc.dataset, best.dataset) > 0

\* lines 422-428: best after ports i, i+1, ... have been asked
RECURSIVE decision_select(_, _, _, _)
decision_select(c, cands, i, best) ==
  IF i >= c.nports THEN best
  ELSE IF cands[i].ptr = NULL THEN decision_select(c, cands, i + 1, best)
  ELSE IF decision_better(cands[i], best)
       THEN decision_select(c, cands, i + 1, cands[i])
       ELSE decision_select(c, cands, i + 1, best)

\* one call per port, in port order: the pointer answered and the priority1 of
\* the dataset it points to
RECURSIVE decision_select_calls(_, _, _)
decision_select_calls(c, cands, i) ==
  IF i >= c.nports THEN <<>>
  ELSE <<Call("port_compute_best", c.port[i], "", cands[i].ptr,
              cands[i].dataset.priority1)>>
       \o decision_select_calls(c, cands, i + 1)

\* the mutant resets the filter in every round that selects a candidate
decision_reset_always(c, best) == TRUE

\* line 436
decision_reset(c, best) == c.best # best.ptr

\* the mutant lets the passive case fall through to the slave case
decision_event_fallthrough(ps) ==
  CASE ps = "PS_LISTENING" -> "EV_NONE"
    [] ps = "PS_GRAND_MASTER" -> "EV_RS_MASTER"
    [] ps = "PS_MASTER" -> "EV_RS_MASTER"
    [] ps = "PS_PASSIVE" -> "EV_RS_SLAVE"
    [] ps = "PS_SLAVE" -> "EV_RS_SLAVE"
    [] OTHER -> "EV_INITIALIZE"

\* lines 445-465: the event for a role
decision_event(ps) ==
  CASE ps = "PS_LISTENING" -> "EV_NONE"
    [] ps = "PS_GRAND_MASTER" -> "EV_RS_MASTER"
    [] ps = "PS_MASTER" -> "EV_RS_MASTER"
    [] ps = "PS_PASSIVE" -> "EV_RS_PASSIVE"
    [] ps = "PS_SLAVE" -> "EV_RS_SLAVE"
    [] OTHER -> "EV_INITIALIZE"

\* lines 449-450 and 458-459: the dataset update of a role
decision_update(c, ps, fc) ==
  CASE ps = "PS_GRAND_MASTER" -> clock_update_grandmaster(c)
    [] ps = "PS_SLAVE" -> clock_update_slave(c, fc)
    [] OTHER -> c

\* lines 449 and 458: the static function called for a role
decision_update_calls(ps) ==
  CASE ps = "PS_GRAND_MASTER" -> <<Call("clock_update_grandmaster", 0, "", 0, 0)>>
    [] ps = "PS_SLAVE" -> <<Call("clock_update_slave", 0, "", 0, 0)>>
    [] OTHER -> <<>>

\* lines 441-467: ports i, i+1, ... are asked their role and dispatched
RECURSIVE decision_ports(_, _, _, _)
decision_ports(st, roles, fc, i) ==
  IF i >= st.c.nports THEN st
  ELSE decision_ports(
         [c |-> decision_update(st.c, roles[i], fc),
          log |-> st.log \o
                  <<Call("bmc_state_decision", st.c.port[i], roles[i], i, 0)>> \o
                  decision_update_calls(roles[i]) \o
                  <<Call("port_dispatch", st.c.port[i], decision_event(roles[i]), i, 0)>>],
         roles, fc, i + 1)

\* the mutant goes on when no port has a candidate
decision_stop_never(best) == FALSE

\* line 430
decision_stop(best) == best.ptr = NULL

handle_state_decision_event(c, cands, roles) ==
  LET best == decision_select(c, cands, 0, NoCandidate)
      l1   == <<Call("handle_state_decision_event", 0, "", 0, 0)>>
              \o decision_select_calls(c, cands, 0)
      rst  == decision_reset(c, best)
      c1   == [c EXCEPT !.avg_delay = IF rst THEN mave_reset(@) ELSE @,
                        !.best = best.ptr]
      l2   == l1 \o (IF rst THEN <<Call("mave_reset", 0, "", 0, 0)>> ELSE <<>>)
  IN  IF decision_stop(best)
      THEN [c |-> c, log |-> l1]
      ELSE decision_ports([c |-> c1, log |-> l2], roles, best, 0)


(***************************************************************************)
(* clock_install_fda, lines 276-288: port p registers cnt descriptors.     *)
(***************************************************************************)
POLLIN_POLLPRI == 3

\* lines 279-282: the index of p in the port array, nports when absent
RECURSIVE install_index(_, _, _)
install_index(c, p, i) ==
  IF i >= c.nports THEN i
  ELSE IF c.port[i] = p THEN i ELSE install_index(c, p, i + 1)

\* the descriptor that port index i keeps in its slot j
FdOf(i, j) == 3 + N_POLLFD * i + j

clock_install_fda(c, p, cnt) ==
  LET i == install_index(c, p, 0)
  IN  [c EXCEPT !.pollfd =
         [k \in Slots |->
            IF k \div N_POLLFD = i /\ k % N_POLLFD < cnt
            THEN [fd |-> FdOf(i, k % N_POLLFD), events |-> POLLIN_POLLPRI]
            ELSE @[k]]]

\* the operation is run by a port of this clock
InstallFda(p, cnt) ==
  /\ handle
  /\ \E i \in 0..(the_clock.nports - 1) : the_clock.port[i] = p
  /\ the_clock' = clock_install_fda(the_clock, p, cnt)
  /\ op' = [name |-> "clock_install_fda", args |-> <<p, cnt>>]
  /\ ret' = 0
  /\ calls' = <<>>
  /\ UNCHANGED <<handle, sampled>>

(***************************************************************************)
(* clock_poll, lines 295-329.                                              *)
(*   res    how poll(2) returns: "EINTR", "ERROR", "ZERO" or "READY"       *)
(*   ready  the slots whose revents carry POLLIN or POLLPRI                *)
(*   ev     what port_event answers for each slot                          *)
(***************************************************************************)
\* the mutant hands every event to the port
poll_slot_dispatch_all(c, k, event) ==
  <<Call("port_event", c.port[k \div N_POLLFD], event, k \div N_POLLFD, k % N_POLLFD),
    Call("port_dispatch", c.port[k \div N_POLLFD], event, k \div N_POLLFD, 0)>>

\* lines 316-320: the calls for ready slot k, whose event is `event`
poll_slot(c, k, event) ==
  <<Call("port_event", c.port[k \div N_POLLFD], event, k \div N_POLLFD, k % N_POLLFD)>>
  \o (IF event = "EV_STATE_DECISION_EVENT" THEN <<>>
      ELSE <<Call("port_dispatch", c.port[k \div N_POLLFD], event, k \div N_POLLFD, 0)>>)

\* lines 312-323: slots k, k+1, ... of the ports of the clock
RECURSIVE poll_scan(_, _, _, _)
poll_scan(c, ready, ev, k) ==
  IF k >= N_POLLFD * c.nports THEN <<>>
  ELSE (IF k \in ready THEN poll_slot(c, k, ev[k]) ELSE <<>>)
       \o poll_scan(c, ready, ev, k + 1)

\* lines 317-318: the flag after the scan
poll_sde(c, ready, ev) ==
  \E k \in ready : k < N_POLLFD * c.nports /\ ev[k] = "EV_STATE_DECISION_EVENT"

\* the mutant takes an interrupted wait for a failure
clock_poll_eintr_fatal(c, res, ready, ev, cands, roles) ==
  LET l0 == <<Call("poll", 0, res, 0, 0)>>
      l1 == l0 \o poll_scan(c, ready, ev, 0)
      d  == handle_state_decision_event(c, cands, roles)
  IN  CASE res \in {"EINTR", "ERROR"} -> [c |-> c, log |-> l0, ret |-> -1]
        [] res = "ZERO"  -> [c |-> c, log |-> l0, ret |-> 0]
        [] OTHER -> IF poll_sde(c, ready, ev)
                    THEN [c |-> d.c, log |-> l1 \o d.log, ret |-> 0]
                    ELSE [c |-> c, log |-> l1, ret |-> 0]

clock_poll(c, res, ready, ev, cands, roles) ==
  LET l0 == <<Call("poll", 0, res, 0, 0)>>
      l1 == l0 \o poll_scan(c, ready, ev, 0)
      d  == handle_state_decision_event(c, cands, roles)
  IN  CASE res = "EINTR" -> [c |-> c, log |-> l0, ret |-> 0]
        [] res = "ERROR" -> [c |-> c, log |-> l0, ret |-> -1]
        [] res = "ZERO"  -> [c |-> c, log |-> l0, ret |-> 0]
        [] OTHER -> IF poll_sde(c, ready, ev)
                    THEN [c |-> d.c, log |-> l1 \o d.log, ret |-> 0]
                    ELSE [c |-> c, log |-> l1, ret |-> 0]

\* the members of a set of integers in ascending order
RECURSIVE Ascending(_)
Ascending(S) ==
  IF S = {} THEN <<>>
  ELSE LET m == CHOOSE x \in S : \A y \in S : x <= y
       IN  <<m>> \o Ascending(S \ {m})

\* the slots poll(2) watches: those with a descriptor
Watched(c) == {k \in Slots : c.pollfd[k].fd >= 0}

Poll(res, ready, ev, cands, roles) ==
  LET r == clock_poll(the_clock, res, ready, ev, cands, roles)
  IN  /\ handle
      /\ ready \subseteq Watched(the_clock)
      /\ res = "READY" => Watched(the_clock) # {}
      /\ res # "READY" => ready = {}
      /\ the_clock' = r.c
      /\ op' = [name |-> "clock_poll", args |-> Ascending(ready)]
      /\ ret' = r.ret
      /\ calls' = r.log
      /\ UNCHANGED <<handle, sampled>>


(***************************************************************************)
(* Inputs.  The arguments of the operations and the answers of the         *)
(* collaborators are drawn from these sets.                                *)
(***************************************************************************)
Times == {[sec |-> 0, nsec |-> n] : n \in 0..MaxTime}

Corrections == {65536 * n : n \in 0..MaxCorr}

ServoAnswers ==
  {[state |-> "SERVO_UNLOCKED", adj |-> 0], [state |-> "SERVO_JUMP", adj |-> 0],
   [state |-> "SERVO_LOCKED", adj |-> -1], [state |-> "SERVO_LOCKED", adj |-> 2]}

DefaultDS(p1, p2) ==
  [clockIdentity |-> 7, clockQuality |-> 6, priority1 |-> p1, priority2 |-> p2,
   numberPorts |-> 0]

EnvOk ==
  [phc_ok |-> TRUE, max_adj |-> 100, servo_ok |-> TRUE, mave_ok |-> TRUE,
   port_fail |-> 0]

\* one environment for each way clock_create can fail
EnvsFailing ==
  {[EnvOk EXCEPT !.phc_ok = FALSE], [EnvOk EXCEPT !.max_adj = 0],
   [EnvOk EXCEPT !.servo_ok = FALSE], [EnvOk EXCEPT !.mave_ok = FALSE]}
  \cup {[EnvOk EXCEPT !.port_fail = f] : f \in 1..MAX_PORTS}

Timestamping == {"TS_HARDWARE", "TS_SOFTWARE"}

Events == {"EV_STATE_DECISION_EVENT", "EV_FAULT_DETECTED"}

Roles ==
  {"PS_LISTENING", "PS_GRAND_MASTER", "PS_MASTER", "PS_PASSIVE", "PS_SLAVE",
   "PS_FAULTY"}

\* what one port may answer to port_compute_best
CandidatesOf(i, idx) ==
  {NoCandidate} \cup {Candidate(i, k, q) : k \in idx, q \in 1..MaxRank}

NoCands == [i \in Ports |-> NoCandidate]

NoRoles == [i \in Ports |-> "PS_LISTENING"]

NoEvents == [k \in {} |-> "EV_FAULT_DETECTED"]

\* the ready sets of a wakeup: at most n of the watched slots
ReadySets(n) == {r \in SUBSET Watched(the_clock) : Cardinality(r) <= n}

(***************************************************************************)
(* The next-state relation over given input sets.                          *)
(*   I.creates  the argument records of clock_create                       *)
(*   I.fdaports, I.fdas  the ports that call clock_install_fda and their   *)
(*              descriptor counts                                          *)
(*   I.ingress, I.origin, I.corr1, I.corr2  the arguments of               *)
(*              clock_synchronize; I.servos  the answers of the servo      *)
(*   I.req, I.rx, I.corr3  the arguments of clock_path_delay               *)
(*   I.ready    the largest number of ready slots                          *)
(*   I.cands, I.roles  the answers of the ports in a decision round        *)
(***************************************************************************)
NextCreate(I) ==
  \E a \in I.creates : Create(a.phc, a.count, a.ds, a.ts, a.env)

NextInstallFda(I) ==
  \E i \in I.fdaports, n \in I.fdas : InstallFda(PortPtr(i), n)

NextPathDelay(I) ==
  \E req \in I.req, rx \in I.rx, corr \in I.corr3 : PathDelay(req, rx, corr)

NextSynchronize(I) ==
  \E ingress \in I.ingress, origin \in I.origin, k1 \in I.corr1, k2 \in I.corr2,
     sv \in I.servos :
    Synchronize(ingress, origin, k1, k2, sv)

NextPollIdle ==
  \E res \in {"EINTR", "ERROR", "ZERO"} : Poll(res, {}, NoEvents, NoCands, NoRoles)

NextPollReady(I) ==
  \E ready \in ReadySets(I.ready) :
    \E ev \in [ready -> Events] :
      IF poll_sde(the_clock, ready, ev)
      THEN \E cands \in I.cands, roles \in I.roles :
             Poll("READY", ready, ev, cands, roles)
      ELSE Poll("READY", ready, ev, NoCands, NoRoles)

NextOf(I) ==
  \/ NextCreate(I)
  \/ NextInstallFda(I)
  \/ NextPathDelay(I)
  \/ NextSynchronize(I)
  \/ NextPollIdle
  \/ NextPollReady(I)

(***************************************************************************)
(* SpecSync: clock_create followed by clock_synchronize and                *)
(* clock_path_delay calls.  The synchronization exchange takes every       *)
(* timestamp and correction; the delay exchange is the one that completes  *)
(* it, or one whose sample is discarded.                                   *)
(***************************************************************************)
CreateArgs(phcs, counts, dss, envs) ==
  {[phc |-> ph, count |-> n, ds |-> d, ts |-> [i \in Ports |-> "TS_HARDWARE"],
    env |-> e] : ph \in phcs, n \in counts, d \in dss, e \in envs}

SyncInputs ==
  [creates |-> CreateArgs({TRUE}, {1}, {DefaultDS(1, 2)}, {EnvOk}),
   ingress |-> Times, origin |-> Times, corr1 |-> Corrections,
   corr2   |-> {0, 65536},
   req     |-> {[sec |-> 0, nsec |-> 0], [sec |-> 0, nsec |-> 2 * MaxTime + 1]},
   rx      |-> {[sec |-> 0, nsec |-> 2 * MaxTime + 1]},
   corr3   |-> {0},
   servos  |-> ServoAnswers]

NextSync ==
  \/ NextCreate(SyncInputs)
  \/ NextPathDelay(SyncInputs)
  \/ NextSynchronize(SyncInputs)

SpecSync == Init /\ [][NextSync]_vars

(***************************************************************************)
(* SpecDelay: every operation, with every timestamp and correction of the  *)
(* delay exchange.  The clock has one port with one descriptor, which      *)
(* answers one of two foreign clocks or none; the servo stays unlocked.    *)
(***************************************************************************)
DelayInputs ==
  [creates  |-> CreateArgs({FALSE}, {1}, {DefaultDS(1, 2)}, {EnvOk}),
   fdaports |-> {0}, fdas |-> {1},
   ingress  |-> Times, origin |-> {[sec |-> 0, nsec |-> 0]},
   corr1    |-> Corrections, corr2 |-> {0},
   req      |-> Times, rx |-> Times, corr3 |-> Corrections,
   servos   |-> {[state |-> "SERVO_UNLOCKED", adj |-> 0]},
   ready    |-> 1,
   cands    |-> {[NoCands EXCEPT ![0] = x] :
                   x \in {NoCandidate, Candidate(0, 1, 1), Candidate(0, 2, 1)}},
   roles    |-> {[i \in Ports |-> "PS_MASTER"]}]

NextDelay == NextOf(DelayInputs)

SpecDelay == Init /\ [][NextDelay]_vars

(***************************************************************************)
(* SpecPoll: the event loop.  Every port count, every port with all its    *)
(* descriptors, up to MaxReady ready slots in a wakeup with every          *)
(* combination of events; port 0 has a candidate or none.                  *)
(***************************************************************************)
PollInputs ==
  [creates  |-> CreateArgs({FALSE}, 0..MAX_PORTS, {DefaultDS(1, 2)}, {EnvOk}),
   fdaports |-> Ports, fdas |-> {N_POLLFD},
   ready    |-> MaxReady,
   cands    |-> {NoCands, [NoCands EXCEPT ![0] = Candidate(0, 1, 1)]},
   roles    |-> {[i \in Ports |-> "PS_MASTER"]}]

NextPoll ==
  \/ NextCreate(PollInputs)
  \/ NextInstallFda(PollInputs)
  \/ NextPollIdle
  \/ NextPollReady(PollInputs)

SpecPoll == Init /\ [][NextPoll]_vars

(***************************************************************************)
(* SpecDecide: decision rounds over every port count.  Port 0 installs one *)
(* descriptor, which raises the decision; it answers one of two foreign    *)
(* clocks, the other ports one, of every rank, or none.  A delay exchange  *)
(* of two nanoseconds fills the filter.                                    *)
(***************************************************************************)
\* the answers of ports i, i+1, ... added to the answers F of the ports before
RECURSIVE AnswersFrom(_, _)
AnswersFrom(F, i) ==
  IF i >= MAX_PORTS THEN F
  ELSE AnswersFrom({[f EXCEPT ![i] = x] :
                      f \in F, x \in CandidatesOf(i, IF i = 0 THEN {1, 2} ELSE {1})},
                   i + 1)

DecideInputs ==
  [creates  |-> CreateArgs({FALSE}, 1..MAX_PORTS, {DefaultDS(1, 2)}, {EnvOk}),
   fdaports |-> {0}, fdas |-> {1},
   req      |-> {[sec |-> 0, nsec |-> 0]}, rx |-> {[sec |-> 0, nsec |-> 2]},
   corr3    |-> {0},
   ready    |-> 1,
   cands    |-> AnswersFrom({NoCands}, 0),
   roles    |-> {[i \in Ports |-> "PS_GRAND_MASTER"],
                 [i \in Ports |-> IF i = 0 THEN "PS_SLAVE" ELSE "PS_MASTER"]}]

NextDecide ==
  \/ NextCreate(DecideInputs)
  \/ NextInstallFda(DecideInputs)
  \/ NextPathDelay(DecideInputs)
  \/ NextPollIdle
  \/ NextPollReady(DecideInputs)

SpecDecide == Init /\ [][NextDecide]_vars

(***************************************************************************)
(* SpecRoles: decision rounds with every assignment of roles.  Port 0      *)
(* installs one descriptor, which raises the decision, and answers one of  *)
(* two foreign clocks, or none.                                            *)
(***************************************************************************)
RolesInputs ==
  [creates  |-> CreateArgs({FALSE}, 1..MAX_PORTS, {DefaultDS(1, 2)}, {EnvOk}),
   fdaports |-> {0}, fdas |-> {1},
   ready    |-> 1,
   cands    |-> {NoCands, [NoCands EXCEPT ![0] = Candidate(0, 1, 1)],
                 [NoCands EXCEPT ![0] = Candidate(0, 2, 2)]},
   roles    |-> [Ports -> Roles]]

NextRoles ==
  \/ NextCreate(RolesInputs)
  \/ NextInstallFda(RolesInputs)
  \/ NextPollIdle
  \/ NextPollReady(RolesInputs)

SpecRoles == Init /\ [][NextRoles]_vars

(***************************************************************************)
(* clock_create with one interface more than the port array holds.  No     *)
(* line of clock_create compares count with MAX_PORTS, so the loop of      *)
(* lines 221-228 stores the last port at port[MAX_PORTS], past the end of  *)
(* the array.  The member that follows the array is the poll table, and    *)
(* the store lands on its first entry: on a build with pointers of 64 bits *)
(* it covers fd and events, with pointers of 32 bits only fd.  The reads   *)
(* of port[MAX_PORTS] in lines 232-233 and in clock_destroy see the same   *)
(* bytes, so the port array is a function on 0..MAX_PORTS in these states. *)
(*   bits   the width of a pointer of the build                            *)
(***************************************************************************)
\* the upper half of a pointer, as the events of a poll table entry
POINTER_HIGH == 1

\* the poll table entry that port[MAX_PORTS] lies on, after the store
create_overlay(ptr, entry, bits) ==
  IF bits = 64 THEN [fd |-> ptr, events |-> POINTER_HIGH]
  ELSE [fd |-> ptr, events |-> entry.events]

\* lines 221-228 for i = MAX_PORTS
create_port_beyond(st, bits) ==
  [c |-> [st.c EXCEPT
            !.port = [i \in 0..MAX_PORTS |->
                        IF i < MAX_PORTS THEN st.c.port[i] ELSE PortPtr(MAX_PORTS)],
            !.pollfd[0] = create_overlay(PortPtr(MAX_PORTS), @, bits)],
   log |-> Append(st.log, Call("port_open", PortPtr(MAX_PORTS), "DM_E2E",
                               MAX_PORTS, 1 + MAX_PORTS))]

clock_create_beyond(c0, phc, ds, bits) ==
  LET count == MAX_PORTS + 1
      ts == [i \in 0..MAX_PORTS |-> "TS_HARDWARE"]
      s0 == create_destroy(c0)
      s1 == create_device(s0, phc, EnvOk)
      s2 == create_servo(s1, count, ts, EnvOk)
      s3 == create_open_ports([c |-> create_datasets(s2.c, ds), log |-> s2.log],
                              0, MAX_PORTS, EnvOk)
      s4 == create_port_beyond(s3, bits)
      c5 == create_record_count(s4.c, count)
  IN  [c |-> c5, log |-> s4.log \o create_dispatch(c5, 0), ok |-> TRUE]

CreateBeyond(phc, ds, bits) ==
  LET r == clock_create_beyond(the_clock, phc, ds, bits)
  IN  /\ the_clock' = r.c
      /\ handle' = r.ok
      /\ op' = [name |-> "clock_create", args |-> <<MAX_PORTS + 1>>]
      /\ ret' = 1
      /\ calls' = r.log
      /\ sampled' = FALSE

(***************************************************************************)
(* SpecCapacity: clock_create with every count up to one more than the     *)
(* port array holds.                                                       *)
(***************************************************************************)
CapacityInputs ==
  [creates |-> CreateArgs(BOOLEAN, 0..MAX_PORTS, {DefaultDS(1, 2), DefaultDS(2, 1)},
                          {EnvOk} \cup EnvsFailing)]

NextCreateBeyond ==
  \E phc \in BOOLEAN, ds \in {DefaultDS(1, 2), DefaultDS(2, 1)}, bits \in {32, 64} :
    CreateBeyond(phc, ds, bits)

NextCapacity ==
  \/ NextCreate(CapacityInputs)
  \/ NextCreateBeyond

SpecCapacity == Init /\ [][NextCapacity]_vars

(***************************************************************************)
(* SpecCreate: clock_create with every device, port count, default         *)
(* dataset, time stamping and failure, and clock_install_fda, so that a    *)
(* clock is destroyed with descriptors installed.                          *)
(***************************************************************************)
CreateInputs ==
  [creates  |-> {[phc |-> ph, count |-> n, ds |-> DefaultDS(p1, p2), ts |-> t, env |-> e] :
                   ph \in BOOLEAN, n \in 0..MAX_PORTS, p1 \in {1, 2}, p2 \in {1, 2},
                   t \in [Ports -> Timestamping], e \in {EnvOk} \cup EnvsFailing},
   fdaports |-> Ports, fdas |-> {N_POLLFD}]

NextCreation ==
  \/ NextCreate(CreateInputs)
  \/ NextInstallFda(CreateInputs)

SpecCreate == Init /\ [][NextCreation]_vars

(***************************************************************************)
(* SpecStep: clock_step applied to offsets around every eighth of a        *)
(* second, on either clock device.                                         *)
(***************************************************************************)
StepOffsets ==
  {k * (NS_PER_SEC \div 8) + d :
     k \in (-4 * MaxStepHalves)..(4 * MaxStepHalves),
     d \in (-MaxStepFine)..MaxStepFine}

Step(clkid_, ns) ==
  /\ op' = [name |-> "clock_step", args |-> <<ns>>]
  /\ calls' = <<clock_step(clkid_, ns)>>
  /\ ret' = 0
  /\ UNCHANGED <<the_clock, handle, sampled>>

NextStep == \E id \in {CLOCK_REALTIME, PHC_CLKID}, ns \in StepOffsets : Step(id, ns)

SpecStep == Init /\ [][NextStep]_vars

(***************************************************************************)
(* Properties of the synchronization path (SpecSync, SpecDelay).           *)
(***************************************************************************)
HasCall(f) == Positions(calls, f) # {}

\* the raw value of the last clock_path_delay call: the call leaves t1, t2,
\* c1 and c2 as they were, so the clock after the call gives the same value
LastRaw == path_delay_raw(the_clock, op.args[1], op.args[2], op.args[3])

\* C1: in every reachable state the published path delay is not negative.
C1_PathDelayNonNegative == the_clock.path_delay >= 0

\* C1 witness: a negative sample was discarded while a positive path delay
\* was published
C1_Witness ==
  /\ op.name = "clock_path_delay"
  /\ LastRaw < -1
  /\ the_clock.path_delay > 0

\* C2: a clock_path_delay call whose raw value is negative feeds nothing to
\* the filter, keeps the filter and the published path delay, and returns
\* no error.
C2_NegativeRawDiscarded ==
  [][(op'.name = "clock_path_delay" /\ LastRaw' < 0)
       => /\ ~HasCall("mave_accumulate")'
          /\ the_clock'.avg_delay = the_clock.avg_delay
          /\ the_clock'.path_delay = the_clock.path_delay
          /\ ret' = 0]_vars

\* C5: a clock_synchronize call samples the servo only when a path delay
\* sample has been fed to the filter since the clock was created.
C5_NoServoBeforeSample ==
  (op.name = "clock_synchronize" /\ HasCall("servo_sample")) => sampled

\* C5 witness: a clock_synchronize call before the first accepted sample
C5_Witness ==
  /\ op.name = "clock_synchronize"
  /\ ~sampled
  /\ calls = <<>>
  /\ the_clock.t2 # 0

\* C6 as claimed: a clock_synchronize call made before any path delay sample
\* was accepted leaves master_offset as it was.
C6_OffsetUnchangedBeforeSample ==
  [][(op'.name = "clock_synchronize" /\ ~sampled')
       => the_clock'.master_offset = the_clock.master_offset]_vars

\* C6 amended: a clock_synchronize call made before any path delay sample was
\* accepted stores master_offset = ingress - (origin + c1 + c2), the offset
\* for a zero path delay, and does not sample the servo.
C6_OffsetStoredBeforeSample ==
  (op.name = "clock_synchronize" /\ ~sampled)
    => /\ the_clock.master_offset = op.args[1] - (op.args[2] + op.args[3] + op.args[4])
       /\ ~HasCall("servo_sample")

\* C6 witness: such a call stored an offset other than zero
C6_Witness ==
  /\ op.name = "clock_synchronize"
  /\ ~sampled
  /\ the_clock.master_offset # 0


(***************************************************************************)
(* Properties of the event loop (SpecPoll).                                *)
(***************************************************************************)
Translations == Positions(calls, "port_event")

Rounds == Positions(calls, "handle_state_decision_event")

Raised == {k \in Translations : calls[k].e = "EV_STATE_DECISION_EVENT"}

\* C3: in one wakeup the decision procedure runs once if some ready slot
\* translated to the state decision event and not at all otherwise; every
\* ready slot is translated, in slot order, and every other event is
\* dispatched to its port, before the procedure starts; the state decision
\* event is never dispatched.
C3_OneDecisionPerWakeup ==
  op.name = "clock_poll" =>
    /\ Cardinality(Rounds) = (IF Raised # {} THEN 1 ELSE 0)
    /\ \A m \in Rounds, k \in Translations : k < m
    /\ Cardinality(Translations) = Len(op.args)
    /\ \A n \in 1..Len(op.args) :
         LET k == Ascending(Translations)[n]
         IN  N_POLLFD * calls[k].x + calls[k].y = op.args[n]
    /\ \A k \in Translations :
         calls[k].e # "EV_STATE_DECISION_EVENT"
           => /\ k < Len(calls)
              /\ calls[k + 1] = Call("port_dispatch", calls[k].p, calls[k].e,
                                     calls[k].x, 0)
    /\ \A k \in Positions(calls, "port_dispatch") :
         calls[k].e # "EV_STATE_DECISION_EVENT"

\* C3 witness: two ports raised the state decision event in one wakeup
C3_Witness ==
  /\ op.name = "clock_poll"
  /\ \E k \in Raised, m \in Raised : calls[k].x # calls[m].x
  /\ Cardinality(Rounds) = 1

\* how poll(2) returned in the last wakeup
Waited == calls[1].e

\* C12: a wakeup whose wait was interrupted by a signal or found nothing
\* ready returns 0, a wait that failed otherwise returns -1; in each case
\* nothing is translated, dispatched or decided and the clock is unchanged
C12_IdleWakeupDoesNothing ==
  [][(op'.name = "clock_poll" /\ Waited' # "READY") =>
       /\ Waited' \in {"EINTR", "ZERO"} => ret' = 0
       /\ Waited' \notin {"EINTR", "ZERO"} => ret' = -1
       /\ Len(calls') = 1
       /\ the_clock' = the_clock
    ]_vars

\* a wait interrupted on a clock that watches a descriptor and has a best
C12_Witness ==
  /\ op.name = "clock_poll"
  /\ Waited = "EINTR"
  /\ ret = 0
  /\ Watched(the_clock) # {}
  /\ the_clock.best # NULL

(***************************************************************************)
(* Properties of the decision round (SpecDecide).                          *)
(***************************************************************************)
\* the answers of the ports in the round that carry a candidate
Answers == {k \in Positions(calls, "port_compute_best") : calls[k].x # NULL}

\* the dataset behind answer k, as far as the comparator reads it
AnswerDS(k) == [priority1 |-> calls[k].y]

\* the calls of the round: those after its marker
InRound(k) == \E r \in Rounds : r < k

\* C4: the filter is reset in a decision round exactly when the round selects
\* a candidate whose identity differs from the best selected before (NULL
\* before the first selection); the reset empties the window; a round that
\* selects the same candidate or has no candidate, and the operations
\* clock_install_fda, clock_path_delay and clock_synchronize, do not reset it
\* and do not empty the window
C4_ResetIffBestChanges ==
  [][/\ (op'.name = "clock_poll" /\ Rounds' # {}) =>
          /\ HasCall("mave_reset")' <=>
               (Answers' # {} /\ the_clock'.best # the_clock.best)
          /\ HasCall("mave_reset")' => the_clock'.avg_delay.val = <<>>
     /\ (op'.name # "clock_create" /\ ~HasCall("mave_reset")') =>
          Len(the_clock'.avg_delay.val) >= Len(the_clock.avg_delay.val)
     /\ (op'.name # "clock_poll" \/ Rounds' = {}) => ~HasCall("mave_reset")'
    ]_vars

\* a round has selected the candidate selected before and the window still
\* holds its samples
C4_Witness ==
  /\ op.name = "clock_poll"
  /\ Rounds # {}
  /\ Answers # {}
  /\ ~HasCall("mave_reset")
  /\ the_clock.avg_delay.val # <<>>

\* C7: after a round in which a port has a candidate, the best is the answer
\* of a port that the answer of no other port beats, and of the answers that
\* compare equal to it, it is the one of the lowest port
C7_BestIsFirstUnbeaten ==
  (op.name = "clock_poll" /\ Answers # {}) =>
    \E k \in Answers :
      /\ the_clock.best = calls[k].x
      /\ \A m \in Answers :
           /\ dscmp(AnswerDS(m), AnswerDS(k)) <= 0
           /\ dscmp(AnswerDS(m), AnswerDS(k)) = 0 => k <= m

\* two ports answer candidates that compare equal and that no other beats;
\* the first is the best
C7_Witness ==
  /\ op.name = "clock_poll"
  /\ \E k \in Answers, m \in Answers :
       /\ k < m
       /\ dscmp(AnswerDS(m), AnswerDS(k)) = 0
       /\ \A n \in Answers : dscmp(AnswerDS(n), AnswerDS(k)) <= 0
       /\ the_clock.best = calls[k].x

\* C8: a round in which no port has a candidate leaves the clock as it was,
\* the best, the datasets and the filter included; bmc_state_decision is not
\* called, the filter is not reset and the round dispatches no event
C8_EmptyRoundChangesNothing ==
  [][(op'.name = "clock_poll" /\ Rounds' # {} /\ Answers' = {}) =>
       /\ the_clock' = the_clock
       /\ ~HasCall("bmc_state_decision")'
       /\ ~HasCall("mave_reset")'
       /\ \A k \in Positions(calls', "port_dispatch") : ~InRound(k)'
    ]_vars

\* a round without candidates on a clock that has a best, a filled filter and
\* the datasets of a slave
C8_Witness ==
  /\ op.name = "clock_poll"
  /\ Rounds # {}
  /\ Answers = {}
  /\ the_clock.best # NULL
  /\ the_clock.avg_delay.val # <<>>
  /\ the_clock.cur.stepsRemoved > 0

(***************************************************************************)
(* Properties of clock_step (SpecStep).                                    *)
(***************************************************************************)
\* seconds * NS_PER_SEC + nanoseconds, for the fields of a request; the
\* second borrowed is given back first, which keeps the product in range
StepValue(sec, usec) ==
  IF sec < 0 THEN (sec + 1) * NS_PER_SEC + (usec - NS_PER_SEC)
  ELSE sec * NS_PER_SEC + usec

\* C9: clock_step issues one request; its nanoseconds lie in
\* 0..NS_PER_SEC-1 and seconds * NS_PER_SEC + nanoseconds is the offset; a
\* second is borrowed exactly when the remainder would be negative
C9_StepNormalized ==
  op.name = "clock_step" =>
    /\ Len(calls) = 1
    /\ calls[1].f = "clock_adjtime"
    /\ calls[1].e = "ADJ_SETOFFSET|ADJ_NANO"
    /\ calls[1].y \in 0..(NS_PER_SEC - 1)
    /\ StepValue(calls[1].x, calls[1].y) = op.args[1]
    /\ calls[1].x = tmv_div(op.args[1], NS_PER_SEC)
                    - (IF c_rem(op.args[1], NS_PER_SEC) < 0 THEN 1 ELSE 0)

\* a second and a half backwards: two seconds back, half a second forth
C9_Witness ==
  /\ op.name = "clock_step"
  /\ op.args[1] = -1500000000
  /\ calls[1].x = -2
  /\ calls[1].y = 500000000

(***************************************************************************)
(* Properties of clock_create (SpecCreate).                                *)
(***************************************************************************)
Opens == Positions(calls, "port_open")

Initializations == Positions(calls, "port_dispatch")

\* C10: after a successful clock_create with N interfaces, N ports have been
\* opened, interface i by the (i+1)-th port_open, with port number i+1; nports
\* and dds.numberPorts are N; each port has been sent EV_INITIALIZE once, and
\* nothing else, after the last port_open
C10_CreateOpensThenInitializes ==
  (op.name = "clock_create" /\ handle) =>
    LET N == op.args[1]
    IN  /\ Cardinality(Opens) = N
        /\ Cardinality(Initializations) = N
        /\ the_clock.nports = N
        /\ the_clock.dds.numberPorts = N
        /\ \A k \in Opens :
             /\ calls[k].x = Cardinality({j \in Opens : j < k})
             /\ calls[k].y = 1 + calls[k].x
             /\ calls[k].p # NULL
             /\ the_clock.port[calls[k].x] = calls[k].p
             /\ \A j \in Opens : j # k => calls[j].p # calls[k].p
        /\ \A d \in Initializations :
             /\ calls[d].e = "EV_INITIALIZE"
             /\ \A k \in Opens : k < d
        /\ \A i \in 0..(N - 1) :
             Cardinality({d \in Initializations : calls[d].p = the_clock.port[i]}) = 1

\* a clock with every port, created over another one
C10_Witness ==
  /\ op.name = "clock_create"
  /\ handle
  /\ op.args[1] = MAX_PORTS
  /\ HasCall("port_close")
  /\ Cardinality(Initializations) = MAX_PORTS

(***************************************************************************)
(* Properties of the roles of a decision round (SpecRoles).                *)
(***************************************************************************)
RoleCalls == Positions(calls, "bmc_state_decision")

\* the events the round dispatches
RoundDispatches == {k \in Positions(calls, "port_dispatch") : InRound(k)}

\* the foreign clock behind answer k: its pointer names the port and the
\* foreign clock, its dataset the rank
AnswerCandidate(k) ==
  Candidate((calls[k].x \div 10) - 1, calls[k].x % 10, calls[k].y)

\* the candidate the round selected
Selected == AnswerCandidate(CHOOSE k \in Answers : calls[k].x = the_clock.best)

\* C11: after a round that assigns a port the slave role, that port has been
\* dispatched EV_RS_SLAVE and the current and parent datasets are those of
\* the selected candidate and its announce message, whatever the roles of the
\* other ports
C11_SlaveDatasetsAfterRound ==
  (op.name = "clock_poll" /\ \E k \in RoleCalls : calls[k].e = "PS_SLAVE") =>
    /\ \A k \in RoleCalls :
         calls[k].e = "PS_SLAVE" =>
           \E d \in RoundDispatches :
             d > k /\ calls[d].p = calls[k].p /\ calls[d].e = "EV_RS_SLAVE"
    /\ the_clock.cur.stepsRemoved = 1 + Selected.dataset.stepsRemoved
    /\ the_clock.dad.parentPortIdentity = Selected.dataset.sender
    /\ the_clock.dad.grandmasterIdentity = Selected.msg.grandmasterIdentity
    /\ the_clock.dad.grandmasterClockQuality = Selected.msg.grandmasterClockQuality
    /\ the_clock.dad.grandmasterPriority1 = Selected.msg.grandmasterPriority1
    /\ the_clock.dad.grandmasterPriority2 = Selected.msg.grandmasterPriority2

\* the event the table of section 4.6 gives for a role
RoleEvent(ps) ==
  IF ps = "PS_LISTENING" THEN "EV_NONE"
  ELSE IF ps \in {"PS_GRAND_MASTER", "PS_MASTER"} THEN "EV_RS_MASTER"
  ELSE IF ps = "PS_PASSIVE" THEN "EV_RS_PASSIVE"
  ELSE IF ps = "PS_SLAVE" THEN "EV_RS_SLAVE"
  ELSE "EV_INITIALIZE"

\* the dataset updates between positions a and b of the log
UpdatesBetween(a, b) ==
  {k \in Positions(calls, "clock_update_grandmaster")
         \cup Positions(calls, "clock_update_slave") : a < k /\ k < b}

\* C14: in a round with a candidate every port is asked its role once and
\* dispatched one event, in port order; the event is the one of its role; the
\* grandmaster and slave roles update the datasets between the question and
\* the dispatch, the other roles do nothing there; a port is asked only after
\* the ports before it have been dispatched
C14_OneEventPerPortByRole ==
  (op.name = "clock_poll" /\ Rounds # {} /\ Answers # {}) =>
    /\ Cardinality(RoleCalls) = the_clock.nports
    /\ Cardinality(RoundDispatches) = the_clock.nports
    /\ \A i \in 0..(the_clock.nports - 1) :
         \E k \in RoleCalls, d \in RoundDispatches :
           /\ calls[k].x = i /\ calls[k].p = the_clock.port[i]
           /\ calls[d].x = i /\ calls[d].p = the_clock.port[i]
           /\ k < d
           /\ calls[d].e = RoleEvent(calls[k].e)
           /\ Cardinality(UpdatesBetween(k, d)) = d - k - 1
           /\ calls[k].e = "PS_GRAND_MASTER" =>
                d = k + 2 /\ calls[k + 1].f = "clock_update_grandmaster"
           /\ calls[k].e = "PS_SLAVE" =>
                d = k + 2 /\ calls[k + 1].f = "clock_update_slave"
           /\ calls[k].e \notin {"PS_GRAND_MASTER", "PS_SLAVE"} => d = k + 1
           /\ \A k2 \in RoleCalls : calls[k2].x > i => d < k2
           /\ \A k2 \in RoleCalls : calls[k2].x < i => k2 < k

\* a round over every port in which a passive port follows a grandmaster port
C14_Witness ==
  /\ op.name = "clock_poll"
  /\ Answers # {}
  /\ the_clock.nports = MAX_PORTS
  /\ \E k \in RoleCalls, m \in RoleCalls :
       /\ k < m
       /\ calls[k].e = "PS_GRAND_MASTER"
       /\ calls[m].e = "PS_PASSIVE"

\* a collaborator of the last clock_create failed: the device did not open
\* or cannot be adjusted, the servo or the filter was not created, or a port
\* did not open
CreateFailure ==
  \/ \E k \in Positions(calls, "phc_open") : calls[k].p = CLOCK_INVALID
  \/ \E k \in Positions(calls, "phc_max_adj") : calls[k].x = 0
  \/ \E k \in Positions(calls, "servo_create") : calls[k].p = NULL
  \/ HasCall("mave_create") /\ the_clock.avg_delay = NoMave
  \/ \E k \in Opens : calls[k].p = NULL

\* C13: clock_create returns NULL exactly when one of these fails; then no
\* port is sent EV_INITIALIZE and the port count is not recorded
C13_CreateFailureReported ==
  op.name = "clock_create" =>
    /\ CreateFailure <=> ~handle
    /\ CreateFailure =>
         /\ ret = NULL
         /\ Initializations = {}
         /\ the_clock.nports = 0
         /\ the_clock.dds.numberPorts = 0

\* the last of several ports did not open
C13_Witness ==
  /\ op.name = "clock_create"
  /\ ~handle
  /\ \E k \in Opens : calls[k].p # NULL
  /\ \E k \in Opens : calls[k].p = NULL

\* C15: after a successful clock_create the parent dataset names the clock
\* itself: the parent port identity is the clock identity with port 0, and
\* the grandmaster identity, quality, priority1 and priority2 are those of
\* the default dataset
C15_ParentDatasetSelfReferential ==
  (op.name = "clock_create" /\ handle) =>
    /\ the_clock.dad.parentPortIdentity =
         [clockIdentity |-> the_clock.dds.clockIdentity, portNumber |-> 0]
    /\ the_clock.dad.grandmasterIdentity = the_clock.dds.clockIdentity
    /\ the_clock.dad.grandmasterClockQuality = the_clock.dds.clockQuality
    /\ the_clock.dad.grandmasterPriority1 = the_clock.dds.priority1
    /\ the_clock.dad.grandmasterPriority2 = the_clock.dds.priority2

\* the ports that are open: port_open has returned them and port_close has
\* not been called on them.  clock_destroy zeroes the array after closing
\* its ports, so these are the entries that are not NULL
StillOpen == {i \in Ports : the_clock.port[i] # NULL}

\* the calls of the last operation that open a device or a port
Openings == Positions(calls, "phc_open") \cup Positions(calls, "port_open")

\* C16: a clock_create entered while ports of an earlier clock_create are
\* open closes each of them, and the device if it is not the system clock,
\* before it opens a device or a port
C16_CreateClosesOpenPorts ==
  [][(op'.name = "clock_create" /\ StillOpen # {}) =>
       /\ \A i \in StillOpen :
            \E k \in Positions(calls', "port_close") :
              /\ calls'[k].p = the_clock.port[i]
              /\ \A m \in Openings' : k < m
       /\ the_clock.clkid # CLOCK_REALTIME =>
            \E k \in Positions(calls', "phc_close") : \A m \in Openings' : k < m
    ]_vars

(***************************************************************************)
(* Properties of the servo path (SpecSync, SpecDelay).                     *)
(***************************************************************************)
\* C17: a clock_synchronize call that samples the servo passes it
\* master_offset = ingress - (origin + path_delay + c1 + c2) and ingress, and
\* then, by the state answered: unlocked, calls nothing more; jump, steps the
\* clock once by -master_offset; locked, sets the frequency once to the
\* negated adjustment
C17_ServoSampleThenOneAction ==
  (op.name = "clock_synchronize" /\ HasCall("servo_sample")) =>
    /\ calls[1] = Call("servo_sample", the_clock.servo, calls[1].e,
                       the_clock.master_offset, op.args[1])
    /\ the_clock.master_offset =
         op.args[1] - (op.args[2] + the_clock.path_delay + op.args[3] + op.args[4])
    /\ calls[1].e = "SERVO_UNLOCKED" => Len(calls) = 1
    /\ calls[1].e = "SERVO_JUMP" =>
         /\ Len(calls) = 2
         /\ calls[2].f = "clock_adjtime"
         /\ calls[2].p = the_clock.clkid
         /\ calls[2].e = "ADJ_SETOFFSET|ADJ_NANO"
         /\ StepValue(calls[2].x, calls[2].y) = -the_clock.master_offset
    /\ calls[1].e = "SERVO_LOCKED" =>
         /\ Len(calls) = 2
         /\ calls[2] = Call("clock_adjtime", the_clock.clkid, "ADJ_FREQUENCY",
                            tmv_div((-op.args[5]) * 65536, 1000), 0)

\* the servo asked for a jump when the clock was behind its master
C17_Witness ==
  /\ op.name = "clock_synchronize"
  /\ HasCall("servo_sample")
  /\ calls[1].e = "SERVO_JUMP"
  /\ the_clock.master_offset < 0
  /\ calls[2].y = -the_clock.master_offset

\* the exchange the clock has stored
Stored == <<the_clock.t1, the_clock.t2, the_clock.c1, the_clock.c2>>

\* the sample of a clock_path_delay call with arguments args on the stored
\* exchange: ((t2 - t3) + (t4 - t1) - (c1 + c2 + c3)) / 2
Sample(args) ==
  tmv_div((the_clock.t2 - args[1]) + (args[2] - the_clock.t1)
            - (the_clock.c1 + the_clock.c2 + args[3]), 2)

\* C18: every clock_synchronize call stores origin, ingress and the two
\* corrections as t1, t2, c1, c2; a successful clock_create leaves them zero;
\* no other operation changes them.  A clock_path_delay call computes its
\* sample from them and from its arguments; a sample that is not negative is
\* fed to the filter and path_delay becomes the mean the filter returns; the
\* call leaves t1, t2, c1, c2 and master_offset as they were
C18_SampleFromStoredExchange ==
  [][/\ op'.name = "clock_synchronize" =>
          Stored' = <<op'.args[2], op'.args[1], op'.args[3], op'.args[4]>>
     /\ (op'.name = "clock_create" /\ handle') => Stored' = <<0, 0, 0, 0>>
     /\ op'.name \notin {"clock_synchronize", "clock_create"} => Stored' = Stored
     /\ op'.name = "clock_path_delay" =>
          /\ the_clock'.master_offset = the_clock.master_offset
          /\ Sample(op'.args) >= 0 =>
               /\ Len(calls') = 1
               /\ calls'[1].f = "mave_accumulate"
               /\ calls'[1].x = Sample(op'.args)
               /\ the_clock'.path_delay = calls'[1].y
               /\ the_clock'.avg_delay # the_clock.avg_delay
          /\ Sample(op'.args) < 0 => the_clock' = the_clock
    ]_vars

\* a sample computed from a stored exchange with timestamps and corrections
\* other than zero was fed to a filter that held a sample
C18_Witness ==
  /\ op.name = "clock_path_delay"
  /\ HasCall("mave_accumulate")
  /\ the_clock.t1 # 0 /\ the_clock.c1 # 0 /\ the_clock.c2 # 0
  /\ Len(the_clock.avg_delay.val) >= 2
  /\ the_clock.path_delay > 0

(***************************************************************************)
(* Properties of the capacity of the clock (SpecCapacity).                 *)
(***************************************************************************)
\* C19: after clock_create the clock holds at most MAX_PORTS ports, every
\* port that was opened has its place in the port array, and the blocks of
\* the ports lie in the poll table
C19_PortsWithinCapacity ==
  op.name = "clock_create" =>
    /\ the_clock.nports <= MAX_PORTS
    /\ \A k \in Opens : calls[k].x \in Ports
    /\ \A i \in 0..(the_clock.nports - 1), j \in 0..(N_POLLFD - 1) :
         N_POLLFD * i + j \in Slots

(***************************************************************************)
(* Properties of the path delay across a change of master (SpecDelay).     *)
(***************************************************************************)
\* C20: the filter is empty from a round that changes the best until
\* clock_path_delay has accepted a sample; a clock_synchronize call made
\* while it is empty does not sample the servo
C20_NoServoOnStalePathDelay ==
  (op.name = "clock_synchronize" /\ the_clock.avg_delay.val = <<>>) =>
    ~HasCall("servo_sample")

=============================================================================
